---- MODULE Spec2Model ----
(***************************************************************************)
(* SOFA (Smart Laytime Event Extractor): the AppPage component of the      *)
(* latest revision (src/unnamed/part_004).  The page keeps one piece of    *)
(* state, extractedData, and derives enrichedData from it with useMemo:    *)
(* timeline blocks (sort + interval merge), the laytime calculation and    *)
(* the events summary.                                                     *)
(*                                                                         *)
(* Encoding.  A timestamp string "YYYY-MM-DD HH:MM" is the tuple           *)
(* <<day, hour, minute>> (day counted from the first day of the            *)
(* statement); the empty string is the empty tuple <<>>.  A Date is the    *)
(* number of minutes since day 0, 00:00 (getTime() / 60000: every          *)
(* timestamp of the format has whole minutes).  A value that may be null   *)
(* is a sequence of length 0 (null) or 1.                                  *)
(*                                                                         *)
(* Left out: the fields the pipeline only copies (vesselName and the other *)
(* master data, an event's status, remark and extracted duration) and the  *)
(* display strings startTime / endTime of a block, which format() derives  *)
(* from the same dates.                                                    *)
(*                                                                         *)
(* A timestamp string that parseISO cannot parse is a tuple with an hour   *)
(* above 24 ("2024-01-01 25:00"); parseISO turns it into an Invalid Date,  *)
(* on which format() throws a RangeError.  renderError records that the    *)
(* memo threw while the page rendered: nothing catches it, so the page is  *)
(* gone.                                                                   *)
(*                                                                         *)
(* formatMinutesToDuration is a pure function; formatCall is one call of   *)
(* it with its argument and, once it returned, its result (SpecFormat).    *)
(*                                                                         *)
(* chartData is the memo of the AnalyticsDashboard component of the        *)
(* earlier revision (src/src/components/analytics-dashboard.tsx), which    *)
(* merges the events of its extractedData prop itself (SpecDashboard); its *)
(* fill colour and display strings are left out.                           *)
(*                                                                         *)
(* laytimeResult is the prop of the LaytimeCalculator component            *)
(* (src/unnamed/part_005) and calculatorView what it renders               *)
(* (SpecCalculator).  Its demurrage string is a sequence of characters,    *)
(* because the component looks at its prefix.                              *)
(*                                                                         *)
(* FloatingAiAssistant (src/unnamed/part_004, second file): assistantData *)
(* is its extractedData prop, isOpen, hasNewInsight, messages, input and   *)
(* isLoading its state, pendingCalls the guideNewUsers calls that have not *)
(* settled yet.  A text is a sequence of pieces (the characters of what    *)
(* the user typed, the parts of a template).  An action is an event, the   *)
(* render after it and the effects of that render (SpecAssistant).         *)
(*                                                                         *)
(* The upload route (src/src/ai/openai.ts, POST): routePc is the await the *)
(* handler is at, file the "file" entry of the form, sofContent and        *)
(* modelResult what extractText and extractPortOperationEvents returned,   *)
(* thrown the value that reached the catch, calls the two functions called *)
(* so far, httpResponse what the handler answered (SpecRoute).             *)
(*                                                                         *)
(* earlierEvents is a history variable of SpecLifecycle: the events of the *)
(* batches that were replaced or reset.  The program does not keep them.   *)
(***************************************************************************)
EXTENDS Integers, Sequences, FiniteSets, TLC

VARIABLES extractedData, enrichedData, renderError, formatCall, earlierEvents,
          chartData, laytimeResult, calculatorView,
          assistantData, isOpen, hasNewInsight, messages, input, isLoading,
          pendingCalls,
          routePc, file, sofContent, modelResult, thrown, calls, httpResponse

pageVars == <<extractedData, enrichedData, renderError>>

formatVars == <<formatCall>>

historyVars == <<earlierEvents>>

dashboardVars == <<chartData>>

calculatorVars == <<laytimeResult, calculatorView>>

assistantVars ==
    <<assistantData, isOpen, hasNewInsight, messages, input, isLoading, pendingCalls>>

routeVars == <<routePc, file, sofContent, modelResult, thrown, calls, httpResponse>>

vars ==
    <<pageVars, formatVars, historyVars, dashboardVars, calculatorVars, assistantVars,
      routeVars>>

(***************************************************************************)
(* Bounds of the model and the input domain.                               *)
(***************************************************************************)
MaxEvents == 3
MaxShort == 2
MaxFormatMinutes == 3000
MaxMessages == 5

Null == <<>>
Some(v) == <<v>>
NoTime == <<>>

DayStamps == { <<0, 10, 0>>, <<0, 12, 0>>, <<0, 14, 0>>, <<0, 16, 0>> }

NearStamps == { <<0, 10, 0>>, <<0, 12, 0>> }

LongStamps == NearStamps \cup { <<4, 10, 0>> }

HalfHourStamps ==
    { <<0, 10, 0>>, <<0, 10, 30>>, <<0, 11, 30>>, <<0, 12, 0>>, <<1, 11, 30>> }

BadStamp == <<0, 25, 0>>

Labels == { "NOR Tendered" }

KnownCategories ==
    { "Arrival", "Cargo Operations", "Departure", "Delays", "Stoppages",
      "Bunkering", "Anchorage", "Other" }

AllCategories == KnownCategories \cup { "Pilotage" }

MainCategories == { "Cargo Operations", "Delays" }

(***************************************************************************)
(* date-fns and Math helpers.                                              *)
(***************************************************************************)
parseISO(s) == (s[1] * 24 + s[2]) * 60 + s[3]

(* isValid(parseISO(s)): false for an Invalid Date. *)
isValid(s) == s[2] <= 24 /\ s[3] <= 59

Trunc(a, b) == IF a >= 0 THEN a \div b ELSE 0 - ((0 - a) \div b)

differenceInMinutes(later, earlier) == later - earlier

differenceInHours(later, earlier) == Trunc(later - earlier, 60)

SetMax(S) == CHOOSE x \in S : \A y \in S : y <= x

SetMin(S) == CHOOSE x \in S : \A y \in S : x <= y

max(dates) == SetMax({ dates[i] : i \in 1..Len(dates) })

min(dates) == SetMin({ dates[i] : i \in 1..Len(dates) })

Map(f(_), s) == [i \in 1..Len(s) |-> f(s[i])]

startDate(e) == parseISO(e.startTime)

endDate(e) == parseISO(e.endTime)

(***************************************************************************)
(* formatMinutesToDuration.  The code appends "<n>d ", "<n>h " and "<n>m"  *)
(* to result and trims it; here result is the sequence of the units        *)
(* appended, and the trimmed string is the units joined by one space.      *)
(***************************************************************************)
RECURSIVE Join(_)
Join(units) ==
    IF Len(units) = 0 THEN ""
    ELSE IF Len(units) = 1 THEN units[1]
    ELSE units[1] \o " " \o Join(Tail(units))

(* A formatter that shows every unit from the first non-zero one on. *)
formatMinutesFromFirstUnit(totalMinutes) ==
    IF totalMinutes <= 0 THEN "0m"
    ELSE LET days == totalMinutes \div 1440
             hours == (totalMinutes % 1440) \div 60
             minutes == totalMinutes % 60
         IN IF days > 0
            THEN Join(<<ToString(days) \o "d", ToString(hours) \o "h",
                        ToString(minutes) \o "m">>)
            ELSE IF hours > 0
            THEN Join(<<ToString(hours) \o "h", ToString(minutes) \o "m">>)
            ELSE ToString(minutes) \o "m"

(* A formatter without the "0m" guard and without the fallback unit. *)
formatMinutesWithoutFallback(totalMinutes) ==
    IF totalMinutes <= 0 THEN ""
    ELSE LET days == totalMinutes \div 1440
             hours == (totalMinutes % 1440) \div 60
             minutes == totalMinutes % 60
             r1 == IF days > 0 THEN <<ToString(days) \o "d">> ELSE <<>>
             r2 == IF hours > 0 THEN Append(r1, ToString(hours) \o "h") ELSE r1
             r3 == IF minutes > 0 THEN Append(r2, ToString(minutes) \o "m") ELSE r2
         IN Join(r3)

(* A formatter that shows the minutes only when there is no larger unit. *)
formatMinutesCoarsely(totalMinutes) ==
    IF totalMinutes <= 0 THEN "0m"
    ELSE LET days == totalMinutes \div 1440
             hours == (totalMinutes % 1440) \div 60
             minutes == totalMinutes % 60
             r1 == IF days > 0 THEN <<ToString(days) \o "d">> ELSE <<>>
             r2 == IF hours > 0 THEN Append(r1, ToString(hours) \o "h") ELSE r1
             r3 == IF r2 = <<>> THEN Append(r2, ToString(minutes) \o "m") ELSE r2
         IN Join(r3)

formatMinutesToDuration(totalMinutes) ==
    IF totalMinutes <= 0 THEN "0m"
    ELSE LET days == totalMinutes \div 1440
             remainingMinutes == totalMinutes % 1440
             hours == remainingMinutes \div 60
             minutes == remainingMinutes % 60
             r1 == IF days > 0 THEN <<ToString(days) \o "d">> ELSE <<>>
             r2 == IF hours > 0 THEN Append(r1, ToString(hours) \o "h") ELSE r1
             r3 == IF minutes > 0 \/ r2 = <<>>
                   THEN Append(r2, ToString(minutes) \o "m")
                   ELSE r2
         IN Join(r3)

(***************************************************************************)
(* enrichedData, step 0: the guards and the validEvents filter.            *)
(***************************************************************************)
truthy(s) == s /= NoTime

(* A filter that also drops the events whose end equals their start. *)
isValidEventNonZero(e) ==
    truthy(e.startTime) /\ truthy(e.endTime) /\ e.startTime /= e.endTime

isValidEvent(e) == truthy(e.startTime) /\ truthy(e.endTime)

validEventsOf(events) == SelectSeq(events, isValidEvent)

(***************************************************************************)
(* Step 1: timeline blocks.  Array.prototype.sort is stable; the           *)
(* comparator orders by parseISO(startTime).                               *)
(***************************************************************************)
compareStart(a, b) == startDate(a) - startDate(b)

(* An insertion that puts an event before the events of the same start. *)
RECURSIVE InsertBeforeEqual(_, _)
InsertBeforeEqual(sorted, e) ==
    IF Len(sorted) = 0 THEN <<e>>
    ELSE IF compareStart(sorted[Len(sorted)], e) < 0 THEN Append(sorted, e)
    ELSE Append(InsertBeforeEqual(SubSeq(sorted, 1, Len(sorted) - 1), e),
                sorted[Len(sorted)])

RECURSIVE InsertSorted(_, _)
InsertSorted(sorted, e) ==
    IF Len(sorted) = 0 THEN <<e>>
    ELSE IF compareStart(sorted[Len(sorted)], e) <= 0 THEN Append(sorted, e)
    ELSE Append(InsertSorted(SubSeq(sorted, 1, Len(sorted) - 1), e),
                sorted[Len(sorted)])

RECURSIVE sortByStart(_)
sortByStart(events) ==
    IF Len(events) = 0 THEN <<>>
    ELSE InsertSorted(sortByStart(SubSeq(events, 1, Len(events) - 1)),
                      events[Len(events)])

newBlock(event, firstEventTime) ==
    [ name |-> event.event,
      category |-> event.category,
      time |-> << differenceInHours(startDate(event), firstEventTime),
                  differenceInHours(endDate(event), firstEventTime) >>,
      subEvents |-> <<event>> ]

(* An overlap test that also merges an event that starts where the block ends. *)
overlapsOrTouches(eventStart, blockEndDate) == eventStart <= blockEndDate

overlaps(eventStart, blockEndDate) == eventStart < blockEndDate

(* A merger that reads the end of the last member only. *)
blockEndDateOfLastMember(block) == endDate(block.subEvents[Len(block.subEvents)])

blockEndDateOf(block) == max(Map(endDate, block.subEvents))

(* A merger that extends the block's times but forgets to push the event. *)
extendBlockWithoutPush(block, event, firstEventTime) ==
    LET newEndDate == max(<<blockEndDateOf(block), endDate(event)>>)
        blockStartDate == min(Map(startDate, block.subEvents))
    IN [ block EXCEPT
           !.time = << differenceInHours(blockStartDate, firstEventTime),
                       differenceInHours(newEndDate, firstEventTime) >> ]

extendBlock(block, event, firstEventTime) ==
    LET blockEndDate == blockEndDateOf(block)
        subEvents == Append(block.subEvents, event)
        newEndDate == max(<<blockEndDate, endDate(event)>>)
        blockStartDate == min(Map(startDate, subEvents))
    IN [ block EXCEPT
           !.subEvents = subEvents,
           !.time = << differenceInHours(blockStartDate, firstEventTime),
                       differenceInHours(newEndDate, firstEventTime) >> ]

(* One iteration of the for loop: st = [merged, current]. *)
sweepStep(st, event, firstEventTime) ==
    IF st.current = Null
    THEN [ merged |-> st.merged,
           current |-> Some(newBlock(event, firstEventTime)) ]
    ELSE LET currentBlock == st.current[1]
             blockEndDate == blockEndDateOf(currentBlock)
         IN IF overlaps(startDate(event), blockEndDate)
            THEN [ merged |-> st.merged,
                   current |-> Some(extendBlock(currentBlock, event, firstEventTime)) ]
            ELSE [ merged |-> Append(st.merged, currentBlock),
                   current |-> Some(newBlock(event, firstEventTime)) ]

RECURSIVE sweep(_, _, _)
sweep(st, events, firstEventTime) ==
    IF Len(events) = 0 THEN st
    ELSE sweep(sweepStep(st, Head(events), firstEventTime), Tail(events),
               firstEventTime)

mergeBlocks(sortedEvents) ==
    LET firstEventTime == startDate(sortedEvents[1])
        st == sweep([merged |-> <<>>, current |-> Null], sortedEvents,
                    firstEventTime)
    IN IF st.current /= Null THEN Append(st.merged, st.current[1])
       ELSE st.merged

eventMinutes(e) == differenceInMinutes(endDate(e), startDate(e))

(* A reducer that lets the later of two equally long events win. *)
longerOrEqualOf(longest, current) ==
    IF ~truthy(longest.startTime) \/ ~truthy(longest.endTime)
       \/ ~truthy(current.startTime) \/ ~truthy(current.endTime)
    THEN longest
    ELSE IF eventMinutes(current) >= eventMinutes(longest) THEN current
    ELSE longest

longerOf(longest, current) ==
    IF ~truthy(longest.startTime) \/ ~truthy(longest.endTime)
       \/ ~truthy(current.startTime) \/ ~truthy(current.endTime)
    THEN longest
    ELSE IF eventMinutes(current) > eventMinutes(longest) THEN current
    ELSE longest

RECURSIVE reduceLongest(_, _)
reduceLongest(longest, rest) ==
    IF Len(rest) = 0 THEN longest
    ELSE reduceLongest(longerOf(longest, Head(rest)), Tail(rest))

blockName(subEvents) ==
    IF Len(subEvents) > 1
    THEN ToString(Len(subEvents)) \o " Overlapping Events"
    ELSE subEvents[1].event

finishBlock(block) ==
    LET start == min(Map(startDate, block.subEvents))
        end == max(Map(endDate, block.subEvents))
        totalDurationMinutes == differenceInMinutes(end, start)
    IN [ name |-> blockName(block.subEvents),
         category |-> reduceLongest(Head(block.subEvents),
                                    Tail(block.subEvents)).category,
         time |-> block.time,
         subEvents |-> block.subEvents,
         duration |-> formatMinutesToDuration(totalDurationMinutes) ]

timelineBlocksOf(sortedEvents) == Map(finishBlock, mergeBlocks(sortedEvents))

(***************************************************************************)
(* Step 2: laytime calculation.                                            *)
(***************************************************************************)
(* A classification that counts everything but delays and stoppages. *)
isCountedUnlessDelay(category) ==
    ~(category = "Delays" \/ category = "Stoppages")

(* A classification that counts the categories outside the enumeration. *)
isCountedOrUnknown(category) ==
    category = "Cargo Operations" \/ category \notin KnownCategories

isCountedCategory(category) == category = "Cargo Operations"

(* A classification whose second branch forgets Stoppages. *)
reasonForDelaysOnly(category) ==
    IF category = "Cargo Operations"
    THEN "Cargo operations count towards laytime."
    ELSE IF category = "Delays"
    THEN "Delays and stoppages generally do not count."
    ELSE "Not counted towards laytime."

reasonFor(category) ==
    IF category = "Cargo Operations"
    THEN "Cargo operations count towards laytime."
    ELSE IF category = "Delays" \/ category = "Stoppages"
    THEN "Delays and stoppages generally do not count."
    ELSE "Not counted towards laytime."

laytimeEventOf(event) ==
    [ event |-> event.event,
      startTime |-> event.startTime,
      endTime |-> event.endTime,
      duration |-> formatMinutesToDuration(eventMinutes(event)),
      isCounted |-> isCountedCategory(event.category),
      reason |-> reasonFor(event.category) ]

(* An accumulation that ignores isCounted. *)
countedMinutesOfEvery(event) == eventMinutes(event)

countedMinutes(event) ==
    IF isCountedCategory(event.category) THEN eventMinutes(event) ELSE 0

(* totalLaytimeMinutes after the map over validEvents has run. *)
RECURSIVE totalLaytimeMinutesOf(_)
totalLaytimeMinutesOf(events) ==
    IF Len(events) = 0 THEN 0
    ELSE totalLaytimeMinutesOf(SubSeq(events, 1, Len(events) - 1))
         + countedMinutes(events[Len(events)])

allowedLaytimeMinutes == 3 * 24 * 60

(* A time saved that takes the absolute difference whatever its sign. *)
timeSavedOfAbsolute(difference) ==
    formatMinutesToDuration(IF difference < 0 THEN 0 - difference ELSE difference)

(* A demurrage that formats the negative difference without Math.abs. *)
demurrageOfSigned(difference) ==
    IF difference < 0 THEN formatMinutesToDuration(difference) ELSE "0m"

timeSavedOf(difference) ==
    IF difference > 0 THEN formatMinutesToDuration(difference) ELSE "0m"

demurrageOf(difference) ==
    IF difference < 0 THEN formatMinutesToDuration(0 - difference) ELSE "0m"

laytimeCalculationOf(validEvents) ==
    LET totalLaytimeMinutes == totalLaytimeMinutesOf(validEvents)
        difference == allowedLaytimeMinutes - totalLaytimeMinutes
    IN [ totalLaytime |-> formatMinutesToDuration(totalLaytimeMinutes),
         allowedLaytime |-> "3 days",
         timeSaved |-> timeSavedOf(difference),
         demurrage |-> demurrageOf(difference),
         laytimeEvents |-> Map(laytimeEventOf, validEvents) ]

(***************************************************************************)
(* Step 3: the summary.  The code interpolates the three formatted         *)
(* durations into one markdown string; the record keeps them apart.        *)
(***************************************************************************)
isDelay(e) == e.category = "Delays" \/ e.category = "Stoppages"

RECURSIVE sumMinutes(_)
sumMinutes(events) ==
    IF Len(events) = 0 THEN 0
    ELSE sumMinutes(SubSeq(events, 1, Len(events) - 1))
         + eventMinutes(events[Len(events)])

eventsSummaryOf(validEvents, sortedEvents, laytimeEvents) ==
    LET totalTimeInPortMinutes ==
            differenceInMinutes(endDate(sortedEvents[Len(sortedEvents)]),
                                startDate(sortedEvents[1]))
        isCountedEvent(e) == e.isCounted
        cargoOpsMinutes == sumMinutes(SelectSeq(laytimeEvents, isCountedEvent))
        delayMinutes == sumMinutes(SelectSeq(validEvents, isDelay))
    IN [ totalTimeInPort |-> formatMinutesToDuration(totalTimeInPortMinutes),
         cargoOperations |-> formatMinutesToDuration(cargoOpsMinutes),
         delays |-> formatMinutesToDuration(delayMinutes) ]

(***************************************************************************)
(* enrichedData = useMemo(..., [extractedData]).                           *)
(***************************************************************************)
(* A memo that answers a batch without events with an empty result, as the *)
(* earlier revision of the page did (src/unnamed/part_003).                *)
emptyResultOf(data) ==
    Some([ events |-> data[1].events,
           timelineBlocks |-> <<>>,
           laytimeCalculation |-> laytimeCalculationOf(<<>>),
           eventsSummary |-> [ totalTimeInPort |-> formatMinutesToDuration(0),
                               cargoOperations |-> formatMinutesToDuration(0),
                               delays |-> formatMinutesToDuration(0) ] ])

noResultOf(data) == Null

enrich(data) ==
    IF data = Null THEN Null
    ELSE IF Len(data[1].events) = 0 THEN noResultOf(data)
    ELSE LET validEvents == validEventsOf(data[1].events)
         IN IF Len(validEvents) = 0 THEN Null
            ELSE LET sortedEvents == sortByStart(validEvents)
                     laytimeCalculation == laytimeCalculationOf(validEvents)
                 IN Some([ events |-> data[1].events,
                           timelineBlocks |-> timelineBlocksOf(sortedEvents),
                           laytimeCalculation |-> laytimeCalculation,
                           eventsSummary |->
                               eventsSummaryOf(validEvents, sortedEvents,
                                               laytimeCalculation.laytimeEvents) ])

(***************************************************************************)
(* format(date, pattern) throws a RangeError on an Invalid Date.  The      *)
(* sweep formats the start and the end of every event that opens a block;  *)
(* an event that joins a block has a valid start (an Invalid Date is not   *)
(* before any date) and the sweep formats max([blockEndDate, eventEnd]),   *)
(* which is an Invalid Date when eventEnd is one.  So the memo throws      *)
(* exactly when a valid event has a timestamp that does not parse.         *)
(***************************************************************************)
formatThrows(s) == ~isValid(s)

eventThrows(event) == formatThrows(event.startTime) \/ formatThrows(event.endTime)

memoThrows(data) ==
    /\ data /= Null
    /\ LET validEvents == validEventsOf(data[1].events)
       IN \E i \in 1..Len(validEvents) : eventThrows(validEvents[i])

(***************************************************************************)
(* AnalyticsDashboard.chartData (analytics-dashboard.tsx): the merger of   *)
(* the earlier revision.  It sorts all the events of the prop, compares    *)
(* a start with the end of the last member of the current block, merges on *)
(* <=, and writes the duration from whole hours.                           *)
(***************************************************************************)
jsRemainder(a, b) == a - b * Trunc(a, b)

chartNewBlock(event, firstEventTime, n) ==
    [ name |-> "Timeline Block " \o ToString(n),
      category |-> "Timeline",
      subEvents |-> <<event>>,
      time |-> << differenceInHours(startDate(event), firstEventTime),
                  differenceInHours(endDate(event), firstEventTime) >>,
      duration |-> "" ]

chartBlockEndDateOf(block) == endDate(block.subEvents[Len(block.subEvents)])

chartOverlaps(eventStart, blockEndDate) == eventStart <= blockEndDate

chartExtendBlock(block, event, firstEventTime) ==
    LET blockEndDate == chartBlockEndDateOf(block)
        subEvents == Append(block.subEvents, event)
        blockStartDate == startDate(subEvents[1])
        newEndDate == max(<<blockEndDate, endDate(event)>>)
    IN [ block EXCEPT
           !.subEvents = subEvents,
           !.time = << differenceInHours(blockStartDate, firstEventTime),
                       differenceInHours(newEndDate, firstEventTime) >> ]

chartSweepStep(st, event, firstEventTime) ==
    IF st.current = Null
    THEN [ merged |-> st.merged,
           current |-> Some(chartNewBlock(event, firstEventTime, 1)) ]
    ELSE LET currentBlock == st.current[1]
             blockEndDate == chartBlockEndDateOf(currentBlock)
         IN IF chartOverlaps(startDate(event), blockEndDate)
            THEN [ merged |-> st.merged,
                   current |-> Some(chartExtendBlock(currentBlock, event,
                                                     firstEventTime)) ]
            ELSE [ merged |-> Append(st.merged, currentBlock),
                   current |-> Some(chartNewBlock(event, firstEventTime,
                                                  Len(st.merged) + 2)) ]

RECURSIVE chartSweep(_, _, _)
chartSweep(st, events, firstEventTime) ==
    IF Len(events) = 0 THEN st
    ELSE chartSweep(chartSweepStep(st, Head(events), firstEventTime),
                    Tail(events), firstEventTime)

chartMergeBlocks(sortedEvents) ==
    LET firstEventTime == startDate(sortedEvents[1])
        st == chartSweep([merged |-> <<>>, current |-> Null], sortedEvents,
                         firstEventTime)
    IN IF st.current /= Null THEN Append(st.merged, st.current[1])
       ELSE st.merged

eventHours(e) == differenceInHours(endDate(e), startDate(e))

longerInHoursOf(longest, current) ==
    IF eventHours(current) > eventHours(longest) THEN current ELSE longest

RECURSIVE reduceLongestInHours(_, _)
reduceLongestInHours(longest, rest) ==
    IF Len(rest) = 0 THEN longest
    ELSE reduceLongestInHours(longerInHoursOf(longest, Head(rest)), Tail(rest))

(* `${days > 0 ? `${days}d ` : ''}${hours}h ${minutes}m` *)
hoursTemplate(days, hours, minutes) ==
    (IF days > 0 THEN ToString(days) \o "d " ELSE "")
        \o ToString(hours) \o "h " \o ToString(minutes) \o "m"

(* totalDurationHours is a whole number, so the fraction the dashboard     *)
(* turns into minutes is 0.                                                *)
chartDurationOf(totalDurationHours) ==
    LET days == totalDurationHours \div 24
        hours == jsRemainder(totalDurationHours, 24)
        minutes == (totalDurationHours - totalDurationHours) * 60
    IN hoursTemplate(days, hours, minutes)

chartFinishBlock(block) ==
    LET longestEvent == reduceLongestInHours(Head(block.subEvents),
                                             Tail(block.subEvents))
        start == startDate(block.subEvents[1])
        end == max(Map(endDate, block.subEvents))
        totalDurationHours == differenceInHours(end, start)
    IN [ block EXCEPT
           !.name = blockName(block.subEvents),
           !.category = longestEvent.category,
           !.duration = chartDurationOf(totalDurationHours) ]

chartDataOf(data) ==
    IF data = Null THEN <<>>
    ELSE IF Len(data[1].events) = 0 THEN <<>>
    ELSE Map(chartFinishBlock, chartMergeBlocks(sortByStart(data[1].events)))

(***************************************************************************)
(* AppPage.enrichedData of the earlier revision (src/unnamed/part_003):    *)
(* the same filter, sort and sweep, but the durations are taken in whole   *)
(* hours with differenceInHours, and the result has timeline blocks only.  *)
(* src/src/app/app/page.tsx computes the same days, hours and minutes from *)
(* totalDurationHours.                                                     *)
(***************************************************************************)
longerInHoursIfCompleteOf(longest, current) ==
    IF ~truthy(longest.startTime) \/ ~truthy(longest.endTime)
       \/ ~truthy(current.startTime) \/ ~truthy(current.endTime)
    THEN longest
    ELSE IF eventHours(current) > eventHours(longest) THEN current
    ELSE longest

RECURSIVE reduceLongestInHoursIfComplete(_, _)
reduceLongestInHoursIfComplete(longest, rest) ==
    IF Len(rest) = 0 THEN longest
    ELSE reduceLongestInHoursIfComplete(
             longerInHoursIfCompleteOf(longest, Head(rest)), Tail(rest))

durationInHoursOf(totalDurationHours) ==
    LET days == totalDurationHours \div 24
        hours == jsRemainder(totalDurationHours, 24)
        minutes == ((totalDurationHours * 3600) - (days * 86400) - (hours * 3600))
                       \div 60
    IN hoursTemplate(days, hours, minutes)

finishBlockInHours(block) ==
    LET start == min(Map(startDate, block.subEvents))
        end == max(Map(endDate, block.subEvents))
        totalDurationHours == differenceInHours(end, start)
    IN [ name |-> blockName(block.subEvents),
         category |-> reduceLongestInHoursIfComplete(Head(block.subEvents),
                                                     Tail(block.subEvents)).category,
         time |-> block.time,
         subEvents |-> block.subEvents,
         duration |-> durationInHoursOf(totalDurationHours) ]

enrichInHours(data) ==
    IF data = Null THEN Null
    ELSE IF Len(data[1].events) = 0 THEN data
    ELSE LET validEvents == validEventsOf(data[1].events)
         IN IF Len(validEvents) = 0
            THEN Some([ events |-> data[1].events, timelineBlocks |-> <<>> ])
            ELSE Some([ events |-> data[1].events,
                        timelineBlocks |->
                            Map(finishBlockInHours,
                                mergeBlocks(sortByStart(validEvents))) ])

(***************************************************************************)
(* LaytimeCalculator (src/unnamed/part_005): the "No Laytime Data" alert   *)
(* and the "Estimated Demurrage Cost" card.                                *)
(***************************************************************************)
startsWith(s, prefix) ==
    /\ Len(s) >= Len(prefix)
    /\ SubSeq(s, 1, Len(prefix)) = prefix

hasDemurrage(result) ==
    /\ result.demurrage /= <<>>
    /\ result.demurrage /= <<"0">>
    /\ result.demurrage /= <<"N", "/", "A">>
    /\ ~startsWith(result.demurrage, <<"0", "h">>)

(* demurrageCost is undefined (null) or a string; the empty string is falsy. *)
hasCost(result) ==
    result.demurrageCost /= Null /\ result.demurrageCost[1] /= ""

LaytimeCalculator(result) ==
    IF result = Null
    THEN [ noLaytimeData |-> TRUE, costCard |-> FALSE ]
    ELSE [ noLaytimeData |-> FALSE,
           costCard |-> hasDemurrage(result[1]) /\ hasCost(result[1]) ]

(***************************************************************************)
(* FloatingAiAssistant: texts, messages and the two effects.               *)
(***************************************************************************)
RECURSIVE trimStart(_)
trimStart(text) ==
    IF Len(text) > 0 /\ Head(text) = " " THEN trimStart(Tail(text)) ELSE text

RECURSIVE trimEnd(_)
trimEnd(text) ==
    IF Len(text) > 0 /\ text[Len(text)] = " "
    THEN trimEnd(SubSeq(text, 1, Len(text) - 1))
    ELSE text

trim(text) == trimEnd(trimStart(text))

welcomeMessage ==
    [ role |-> "assistant",
      content |-> <<"Hello! I'm the SOFA assistant. I can help you use the app or provide insights on your uploaded Statement of Fact. How can I help?">> ]

insightMessageOf(data) ==
    [ role |-> "assistant",
      content |-> <<"Here are some insights for **", data.vesselName, "**:\n\n",
                    data.eventsSummary>> ]

noSummaryMessageOf(data) ==
    [ role |-> "assistant",
      content |-> <<"I've successfully extracted the events for **", data.vesselName,
                    "**. However, I was unable to generate an automated summary for this document.">> ]

userMessageOf(text) == [ role |-> "user", content |-> text ]

assistantMessageOf(response) == [ role |-> "assistant", content |-> <<response>> ]

errorMessage ==
    [ role |-> "assistant",
      content |-> <<"Sorry, I encountered an error. Please try again.">> ]

(* The effect on [isOpen]: the value of hasNewInsight after it. *)
insightAfterOpenEffect(open, insight) == IF open THEN FALSE ELSE insight

(* The effect on [extractedData]: the message it appends, if any. *)
insightMessagesOf(data) ==
    IF data /= Null /\ data[1].eventsSummary /= "" THEN <<insightMessageOf(data[1])>>
    ELSE IF data /= Null THEN <<noSummaryMessageOf(data[1])>>
    ELSE <<>>

(* A send handler that does not trim the input before testing it. *)
acceptsSendUntrimmed(text, loading) == ~(text = <<>> \/ loading)

(* if (!input.trim() || isLoading) return; *)
acceptsSend(text, loading) == ~(trim(text) = <<>> \/ loading)

(***************************************************************************)
(* The upload route (src/src/ai/openai.ts).  A file is its size, its name  *)
(* (a sequence of characters) and its type; a form entry that is a string  *)
(* has neither size nor name.  The message of a thrown value is a sequence *)
(* of pieces, so that includes can look for one of them.                   *)
(***************************************************************************)
MAX_FILE_SIZE == 10 * 1024 * 1024

endsWith(s, suffix) ==
    /\ Len(s) >= Len(suffix)
    /\ SubSeq(s, Len(s) - Len(suffix) + 1, Len(s)) = suffix

includes(message, piece) == \E i \in 1..Len(message) : message[i] = piece

Docx == <<".", "d", "o", "c", "x">>

Pdf == <<".", "p", "d", "f">>

DocxType == "application/vnd.openxmlformats-officedocument.wordprocessingml.document"

PdfType == "application/pdf"

isSupported(f) == endsWith(f.name, Docx) \/ endsWith(f.name, Pdf)

(* The library extractText hands the buffer to. *)
parserOf(f) ==
    IF f.type = DocxType \/ endsWith(f.name, Docx) THEN "mammoth"
    ELSE IF f.type = PdfType \/ endsWith(f.name, Pdf) THEN "pdfParse"
    ELSE "none"

UnsupportedError ==
    [ isError |-> TRUE,
      message |-> Some(<<"Unsupported file type", ". Please upload a DOCX or PDF.">>) ]

(* file.name.endsWith on an entry that is a string. *)
NameTypeError ==
    [ isError |-> TRUE,
      message |-> Some(<<"Cannot read properties of undefined (reading 'endsWith')">>) ]

errorResponse(text, status) ==
    [ status |-> status, json |-> Some([ error |-> text ]) ]

(* What the catch block answers; a thrown value without a message makes    *)
(* e.message.includes throw in the catch block itself, and the framework   *)
(* answers 500 without a JSON body.                                        *)
catch(e) ==
    IF e.message = Null THEN [ status |-> 500, json |-> Null ]
    ELSE IF includes(e.message[1], "Unsupported file type")
         THEN errorResponse(e.message[1], 500)
    ELSE IF includes(e.message[1], "Corrupted zip")
         THEN errorResponse(<<"The DOCX file appears to be corrupted.">>, 500)
    ELSE errorResponse(<<"An unexpected error occurred on the server.">>, 500)

(* A length test that forgets to trim. *)
isTooShortUntrimmed(text) == text = <<>> \/ Len(text) < 50

(* !sofContent || sofContent.trim().length < 50 *)
isTooShort(text) == text = <<>> \/ Len(trim(text)) < 50

(* !result || !result.vesselName *)
isInvalidResult(r) == r = Null \/ r[1].vesselName = ""

(***************************************************************************)
(* The batches a completed extraction can hand to the page.                *)
(***************************************************************************)
EventsOver(categories, starts, ends) ==
    [ event : Labels, category : categories, startTime : starts, endTime : ends ]

ListsUpTo(S, n) == UNION { [1..k -> S] : k \in 0..n }

missingCount(events) ==
    Cardinality({ i \in 1..Len(events) : ~isValidEvent(events[i]) })

(* Up to MaxEvents complete events of one category within one day. *)
MergeBatches ==
    ListsUpTo(EventsOver({"Cargo Operations"}, DayStamps, DayStamps), MaxEvents)

(* Short lists with spans of several days. *)
LaytimeBatches ==
    ListsUpTo(EventsOver(MainCategories, LongStamps, LongStamps), MaxShort)

(* Short lists over every category. *)
CategoryBatches ==
    ListsUpTo(EventsOver(AllCategories, NearStamps, NearStamps), MaxShort)

(* Short lists in which one event may lack its start or its end. *)
MissingBatches ==
    { events \in ListsUpTo(EventsOver({"Cargo Operations"},
                                      NearStamps \cup {NoTime},
                                      NearStamps \cup {NoTime}), MaxShort) :
        missingCount(events) <= 1 }

(* Short lists in which a timestamp may be one that does not parse. *)
UnparsedBatches ==
    ListsUpTo(EventsOver({"Cargo Operations"},
                         NearStamps \cup {BadStamp},
                         NearStamps \cup {BadStamp}), MaxShort)

Batches ==
    MergeBatches \cup LaytimeBatches \cup CategoryBatches \cup MissingBatches
        \cup UnparsedBatches

(***************************************************************************)
(* The page.  SoFProcessor, the only caller of handleDataExtracted, is     *)
(* rendered while enrichedData is null; the "Process New SoF" button, the  *)
(* only caller of handleReset, while it is not.  Each action includes the  *)
(* re-render that recomputes the memo.                                     *)
(***************************************************************************)
pageIdle ==
    /\ extractedData = Null
    /\ enrichedData = Null
    /\ renderError = FALSE

formatIdle == formatCall = Null

historyIdle == earlierEvents = {}

dashboardIdle == chartData = Null

calculatorIdle == laytimeResult = Null /\ calculatorView = Null

(* The assistant as mounted: closed, with its welcome message. *)
assistantMounted ==
    /\ assistantData = Null
    /\ isOpen = FALSE
    /\ hasNewInsight = FALSE
    /\ messages = <<welcomeMessage>>
    /\ input = <<>>
    /\ isLoading = FALSE
    /\ pendingCalls = <<>>

(* No request is being handled. *)
routeIdle ==
    /\ routePc = "idle"
    /\ file = Null
    /\ sofContent = Null
    /\ modelResult = Null
    /\ thrown = Null
    /\ calls = <<>>
    /\ httpResponse = Null

Init ==
    /\ pageIdle
    /\ formatIdle
    /\ historyIdle
    /\ dashboardIdle
    /\ calculatorIdle
    /\ assistantMounted
    /\ routeIdle

(* A memo that keeps the result it has instead of recomputing it. *)
setExtractedDataKeepingMemo(data) ==
    /\ extractedData' = data
    /\ renderError' = memoThrows(extractedData')
    /\ enrichedData' = IF renderError' THEN Null
                       ELSE IF enrichedData /= Null THEN enrichedData
                       ELSE enrich(extractedData')

(* setExtractedData(data) and the render that follows it. *)
setExtractedData(data) ==
    /\ extractedData' = data
    /\ renderError' = memoThrows(extractedData')
    /\ enrichedData' = IF renderError' THEN Null ELSE enrich(extractedData')

handleDataExtractedWith(events) ==
    /\ enrichedData = Null
    /\ ~renderError
    /\ setExtractedData(Some([events |-> events]))

handleResetPage ==
    /\ enrichedData /= Null
    /\ setExtractedData(Null)

handleDataExtracted ==
    /\ \E events \in Batches : handleDataExtractedWith(events)
    /\ UNCHANGED <<formatVars, historyVars, dashboardVars, calculatorVars, assistantVars,
                   routeVars>>

handleReset ==
    /\ handleResetPage
    /\ UNCHANGED <<formatVars, historyVars, dashboardVars, calculatorVars, assistantVars,
                   routeVars>>

Next == handleDataExtracted \/ handleReset

Spec == Init /\ [][Next]_vars

(***************************************************************************)
(* The page over several batches: the same two handlers on short batches,  *)
(* with the events of every batch that is replaced or reset recorded in    *)
(* earlierEvents.                                                          *)
(***************************************************************************)
LifecycleBatches ==
    ListsUpTo(EventsOver({"Cargo Operations"}, NearStamps, NearStamps), MaxShort)

currentEvents ==
    IF extractedData = Null THEN {}
    ELSE { extractedData[1].events[i] : i \in 1..Len(extractedData[1].events) }

lifecycleDataExtracted ==
    /\ \E events \in LifecycleBatches : handleDataExtractedWith(events)
    /\ earlierEvents' = earlierEvents \cup currentEvents
    /\ UNCHANGED <<formatVars, dashboardVars, calculatorVars, assistantVars,
                   routeVars>>

lifecycleReset ==
    /\ handleResetPage
    /\ earlierEvents' = earlierEvents \cup currentEvents
    /\ UNCHANGED <<formatVars, dashboardVars, calculatorVars, assistantVars,
                   routeVars>>

NextLifecycle == lifecycleDataExtracted \/ lifecycleReset

SpecLifecycle == Init /\ [][NextLifecycle]_vars

(***************************************************************************)
(* formatMinutesToDuration alone: a call with any number of minutes an     *)
(* event, a block or a laytime difference can have (negative for an event  *)
(* that ends before it starts), then its return.                           *)
(***************************************************************************)
FormatArguments == (0 - MaxFormatMinutes)..MaxFormatMinutes

InitFormat ==
    /\ pageIdle
    /\ historyIdle
    /\ dashboardIdle
    /\ calculatorIdle
    /\ assistantMounted
    /\ routeIdle
    /\ formatCall \in { Some([totalMinutes |-> n, result |-> Null]) :
                          n \in FormatArguments }

formatReturn ==
    /\ formatCall[1].result = Null
    /\ formatCall' =
           Some([ totalMinutes |-> formatCall[1].totalMinutes,
                  result |-> Some(formatMinutesToDuration(formatCall[1].totalMinutes)) ])
    /\ UNCHANGED <<pageVars, historyVars, dashboardVars, calculatorVars, assistantVars,
                   routeVars>>

NextFormat == formatReturn

SpecFormat == InitFormat /\ [][NextFormat]_vars

(***************************************************************************)
(* The AnalyticsDashboard of the earlier revision alone: mounted with an   *)
(* extractedData prop, then rendered.                                      *)
(***************************************************************************)
InitDashboard ==
    /\ extractedData \in { Some([events |-> events]) : events \in MergeBatches }
    /\ enrichedData = Null
    /\ renderError = FALSE
    /\ formatIdle
    /\ historyIdle
    /\ dashboardIdle
    /\ calculatorIdle
    /\ assistantMounted
    /\ routeIdle

renderDashboard ==
    /\ chartData = Null
    /\ chartData' = Some(chartDataOf(extractedData))
    /\ UNCHANGED <<pageVars, formatVars, historyVars, calculatorVars, assistantVars,
                   routeVars>>

NextDashboard == renderDashboard

SpecDashboard == InitDashboard /\ [][NextDashboard]_vars

(***************************************************************************)
(* The page of the earlier revision: extractedData holds a batch and the   *)
(* render computes the memo of that revision.                              *)
(***************************************************************************)
HalfHourBatches ==
    ListsUpTo(EventsOver({"Cargo Operations"}, HalfHourStamps, HalfHourStamps),
              MaxShort) \ { <<>> }

InitInHours ==
    /\ extractedData \in { Some([events |-> events]) : events \in HalfHourBatches }
    /\ enrichedData = Null
    /\ renderError = FALSE
    /\ formatIdle
    /\ historyIdle
    /\ dashboardIdle
    /\ calculatorIdle
    /\ assistantMounted
    /\ routeIdle

renderInHours ==
    /\ enrichedData = Null
    /\ enrichedData' = enrichInHours(extractedData)
    /\ UNCHANGED <<extractedData, renderError, formatVars, historyVars, dashboardVars,
                   calculatorVars, assistantVars,
                   routeVars>>

NextInHours == renderInHours

SpecInHours == InitInHours /\ [][NextInHours]_vars

(***************************************************************************)
(* The LaytimeCalculator alone: mounted with a laytimeResult prop, then    *)
(* rendered.  The demurrage strings are those the allocator writes         *)
(* (formatMinutesToDuration) and those of the extraction flow of the       *)
(* earlier revisions.                                                      *)
(***************************************************************************)
DemurrageStrings ==
    { <<>>, <<"0">>, <<"N", "/", "A">>,
      <<"0", "m">>, <<"3", "0", "m">>, <<"2", "h">>, <<"1", "d">>,
      <<"1", "d", " ", "2", "h">>,
      <<"0", "h">>, <<"0", "h", " ", "0", "m">>, <<"0", "h", " ", "3", "0", "m">>,
      <<"1", "h", " ", "0", "m">>, <<"0", " ", "d", "a", "y", "s">> }

CostStrings == { Null, Some(""), Some("$0.00"), Some("$20,000.00") }

LaytimeResults ==
    { Null } \cup { Some(r) : r \in [ demurrage : DemurrageStrings,
                                       demurrageCost : CostStrings ] }

InitCalculator ==
    /\ pageIdle
    /\ formatIdle
    /\ historyIdle
    /\ dashboardIdle
    /\ assistantMounted
    /\ routeIdle
    /\ laytimeResult \in LaytimeResults
    /\ calculatorView = Null

renderCalculator ==
    /\ calculatorView = Null
    /\ calculatorView' = Some(LaytimeCalculator(laytimeResult))
    /\ UNCHANGED <<pageVars, formatVars, historyVars, dashboardVars, laytimeResult,
                   assistantVars, routeVars>>

NextCalculator == renderCalculator

SpecCalculator == InitCalculator /\ [][NextCalculator]_vars

(***************************************************************************)
(* FloatingAiAssistant on its own: the prop, the sheet, the input and the  *)
(* send handler with its awaited call.  What the user can type, what the   *)
(* prop can become and what guideNewUsers can return are drawn from small  *)
(* sets; MaxMessages caps the conversation, keeping room for the reply of  *)
(* a call that has not settled.                                            *)
(***************************************************************************)
Inputs == { <<>>, <<" ">>, <<"h", "i">>, <<" ", "h", "i", " ">> }

AssistantData ==
    { Null,
      Some([ vesselName |-> "MV Test", eventsSummary |-> "Loading took two days." ]),
      Some([ vesselName |-> "MV Test", eventsSummary |-> "" ]) }

GuideResults ==
    { Null, Some([ response |-> "" ]), Some([ response |-> "Upload a file to begin." ]) }

room == MaxMessages - Len(messages) - Len(pendingCalls)

InitAssistant ==
    /\ pageIdle
    /\ formatIdle
    /\ historyIdle
    /\ dashboardIdle
    /\ calculatorIdle
    /\ assistantMounted
    /\ routeIdle

assistantOnly ==
    UNCHANGED <<pageVars, formatVars, historyVars, dashboardVars, calculatorVars,
                routeVars>>

(* <Sheet open={isOpen} onOpenChange={setIsOpen}>, then the effect on      *)
(* [isOpen], which runs when isOpen has changed.                           *)
setIsOpen ==
    /\ \E open \in BOOLEAN :
          /\ isOpen' = open
          /\ hasNewInsight' = IF isOpen' /= isOpen
                               THEN insightAfterOpenEffect(isOpen', hasNewInsight)
                               ELSE hasNewInsight
    /\ UNCHANGED <<assistantData, messages, input, isLoading, pendingCalls>>
    /\ assistantOnly

(* The parent renders with another extractedData, then the effect on       *)
(* [extractedData] runs.  An extraction result is a new object each time.  *)
setAssistantData ==
    /\ \E data \in AssistantData :
          /\ ~(data = Null /\ assistantData = Null)
          /\ Len(insightMessagesOf(data)) <= room
          /\ assistantData' = data
          /\ messages' = messages \o insightMessagesOf(data)
          /\ hasNewInsight' = IF data /= Null THEN TRUE ELSE hasNewInsight
    /\ UNCHANGED <<isOpen, input, isLoading, pendingCalls>>
    /\ assistantOnly

(* <Input onChange={(e) => setInput(e.target.value)} disabled={isLoading}> *)
setInput ==
    /\ ~isLoading
    /\ \E text \in Inputs : input' = text
    /\ UNCHANGED <<assistantData, isOpen, hasNewInsight, messages, isLoading,
                   pendingCalls>>
    /\ assistantOnly

(* handleSendMessage up to its await. *)
handleSendMessage ==
    /\ IF acceptsSend(input, isLoading)
       THEN /\ room >= 2
            /\ messages' = Append(messages, userMessageOf(input))
            /\ input' = <<>>
            /\ isLoading' = TRUE
            /\ pendingCalls' = Append(pendingCalls, input)
       ELSE UNCHANGED <<messages, input, isLoading, pendingCalls>>
    /\ UNCHANGED <<assistantData, isOpen, hasNewInsight>>
    /\ assistantOnly

(* The rest of handleSendMessage: try, catch and finally. *)
settle(reply) ==
    /\ pendingCalls /= <<>>
    /\ messages' = Append(messages, reply)
    /\ isLoading' = FALSE
    /\ pendingCalls' = Tail(pendingCalls)
    /\ UNCHANGED <<assistantData, isOpen, hasNewInsight, input>>
    /\ assistantOnly

guideNewUsersReturns ==
    \E result \in GuideResults :
        settle(IF result /= Null /\ result[1].response /= ""
               THEN assistantMessageOf(result[1].response)
               ELSE errorMessage)

guideNewUsersThrows == settle(errorMessage)

NextAssistant ==
    \/ setIsOpen
    \/ setAssistantData
    \/ setInput
    \/ handleSendMessage
    \/ guideNewUsersReturns
    \/ guideNewUsersThrows

SpecAssistant == InitAssistant /\ [][NextAssistant]_vars

(* The awaited call returns or throws. *)
SpecAssistantSettling ==
    /\ InitAssistant
    /\ [][NextAssistant]_vars
    /\ WF_vars(guideNewUsersReturns \/ guideNewUsersThrows)

(***************************************************************************)
(* The upload route handling one request.  The form entry, what the two    *)
(* awaited functions return and what is thrown are drawn from small sets:  *)
(* sizes around MAX_FILE_SIZE, names with and without the two extensions,  *)
(* texts around 50 characters with and without surrounding blanks.         *)
(***************************************************************************)
RECURSIVE Repeat(_, _)
Repeat(c, n) == IF n = 0 THEN <<>> ELSE <<c>> \o Repeat(c, n - 1)

FileNames ==
    { <<"a">> \o Docx, <<"a">> \o Pdf, <<"a", ".", "D", "O", "C", "X">>,
      <<"a", ".", "t", "x", "t">>, <<"d", "o", "c", "x">>, Pdf \o <<".", "t", "x", "t">> }

FileTypes == { DocxType, PdfType, "text/plain" }

FormEntries ==
    { Null, Some([ isFile |-> FALSE ]) }
    \cup { Some([ isFile |-> TRUE, size |-> size, name |-> name, type |-> type ]) :
             size \in { 1, MAX_FILE_SIZE, MAX_FILE_SIZE + 1 },
             name \in FileNames, type \in FileTypes }

Texts ==
    { <<>>, Repeat(" ", 60), Repeat("x", 49), Repeat("x", 50),
      <<" ">> \o Repeat("x", 49), Repeat("x", 49) \o <<" ">>,
      Repeat("x", 25) \o <<" ">> \o Repeat("x", 24),
      <<" ">> \o Repeat("x", 50) \o <<" ">> }

ThrownValues ==
    { UnsupportedError,
      [ isError |-> TRUE,
        message |-> Some(<<"Corrupted zip", ": can't find end of central directory">>) ],
      [ isError |-> TRUE, message |-> Some(<<"fetch failed">>) ],
      [ isError |-> FALSE, message |-> Null ] }

ModelResults ==
    { Null, Some([ vesselName |-> "" ]), Some([ vesselName |-> "MV Test" ]) }

InitRoute ==
    /\ pageIdle
    /\ formatIdle
    /\ historyIdle
    /\ dashboardIdle
    /\ calculatorIdle
    /\ assistantMounted
    /\ routePc = "formData"
    /\ file = Null
    /\ sofContent = Null
    /\ modelResult = Null
    /\ thrown = Null
    /\ calls = <<>>
    /\ httpResponse = Null

routeOnly ==
    UNCHANGED <<pageVars, formatVars, historyVars, dashboardVars, calculatorVars,
                assistantVars>>

respond(r) == httpResponse' = Some(r) /\ routePc' = "done"

throw(e) == thrown' = Some(e) /\ respond(catch(e))

(* await req.formData() resolves; the checks up to await extractText. *)
formDataReturns ==
    /\ routePc = "formData"
    /\ \E entry \in FormEntries :
          /\ file' = entry
          /\ IF entry = Null
             THEN /\ respond(errorResponse(<<"No file was uploaded.">>, 400))
                  /\ UNCHANGED <<thrown, calls>>
             ELSE IF ~entry[1].isFile
             THEN throw(NameTypeError) /\ UNCHANGED calls
             ELSE IF entry[1].size > MAX_FILE_SIZE
             THEN /\ respond(errorResponse(<<"File size exceeds the 10MB limit.">>, 413))
                  /\ UNCHANGED <<thrown, calls>>
             ELSE IF ~isSupported(entry[1])
             THEN /\ respond(errorResponse(
                         <<"Unsupported file type. Only .docx and .pdf are accepted.">>, 415))
                  /\ UNCHANGED <<thrown, calls>>
             ELSE /\ routePc' = "extractText"
                  /\ calls' = Append(calls, "extractText")
                  /\ UNCHANGED <<thrown, httpResponse>>
    /\ UNCHANGED <<sofContent, modelResult>>
    /\ routeOnly

formDataThrows ==
    /\ routePc = "formData"
    /\ \E e \in ThrownValues : throw(e)
    /\ UNCHANGED <<file, sofContent, modelResult, calls>>
    /\ routeOnly

(* await extractText(file) resolves; the check up to the next await. *)
extractTextReturns ==
    /\ routePc = "extractText"
    /\ parserOf(file[1]) /= "none"
    /\ \E text \in Texts :
          /\ sofContent' = Some(text)
          /\ IF isTooShort(text)
             THEN /\ respond(errorResponse(
                         <<"Failed to extract meaningful content from the file. It may be empty, corrupted, or password-protected.">>, 400))
                  /\ UNCHANGED calls
             ELSE /\ routePc' = "extractPortOperationEvents"
                  /\ calls' = Append(calls, "extractPortOperationEvents")
                  /\ UNCHANGED httpResponse
    /\ UNCHANGED <<file, modelResult, thrown>>
    /\ routeOnly

extractTextThrows ==
    /\ routePc = "extractText"
    /\ \E e \in (IF parserOf(file[1]) = "none" THEN { UnsupportedError }
                   ELSE ThrownValues) : throw(e)
    /\ UNCHANGED <<file, sofContent, modelResult, calls>>
    /\ routeOnly

extractPortOperationEventsReturns ==
    /\ routePc = "extractPortOperationEvents"
    /\ \E r \in ModelResults :
          /\ modelResult' = r
          /\ IF isInvalidResult(r)
             THEN respond(errorResponse(
                      <<"The AI failed to analyze the document. The content might not resemble a Statement of Fact.">>, 500))
             ELSE respond([ status |-> 200, json |-> r ])
    /\ UNCHANGED <<file, sofContent, thrown, calls>>
    /\ routeOnly

extractPortOperationEventsThrows ==
    /\ routePc = "extractPortOperationEvents"
    /\ \E e \in ThrownValues : throw(e)
    /\ UNCHANGED <<file, sofContent, modelResult, calls>>
    /\ routeOnly

NextRoute ==
    \/ formDataReturns
    \/ formDataThrows
    \/ extractTextReturns
    \/ extractTextThrows
    \/ extractPortOperationEventsReturns
    \/ extractPortOperationEventsThrows

SpecRoute == InitRoute /\ [][NextRoute]_vars

(***************************************************************************)
(* Properties.  Shared vocabulary: the complete events of the batch, the   *)
(* span of a block and of an event as sets of instants.  Every endpoint    *)
(* is an instant of Instants, so a union of closed intervals is decided by *)
(* the instants it contains and by the gaps between neighbouring instants  *)
(* it contains.                                                            *)
(***************************************************************************)
HasResult == enrichedData /= Null

InputEvents == extractedData[1].events

isComplete(e) == e.startTime /= NoTime /\ e.endTime /= NoTime

CompleteIndices == { i \in 1..Len(InputEvents) : isComplete(InputEvents[i]) }

Blocks == enrichedData[1].timelineBlocks

Laytime == enrichedData[1].laytimeCalculation

MemberStarts(b) == { parseISO(b.subEvents[i].startTime) : i \in 1..Len(b.subEvents) }

MemberEnds(b) == { parseISO(b.subEvents[i].endTime) : i \in 1..Len(b.subEvents) }

BlockStart(b) == SetMin(MemberStarts(b))

BlockEnd(b) == SetMax(MemberEnds(b))

Instants ==
    UNION { { parseISO(InputEvents[i].startTime), parseISO(InputEvents[i].endTime) } :
            i \in CompleteIndices }

Gaps ==
    { g \in Instants \X Instants :
        g[1] < g[2] /\ ~ \E r \in Instants : g[1] < r /\ r < g[2] }

PointIn(p, lo, hi) == lo <= p /\ p <= hi

GapIn(g, lo, hi) == lo <= g[1] /\ g[2] <= hi

AllMembers ==
    UNION { { b.subEvents[i] : i \in 1..Len(b.subEvents) } :
            b \in { Blocks[k] : k \in 1..Len(Blocks) } }

(* C1: consecutive blocks are disjoint: the span of a block, from its      *)
(* earliest member start to its latest member end, ends at or before the   *)
(* start of the next block.                                                *)
C1_Disjointness ==
    HasResult =>
        \A i \in 1..(Len(Blocks) - 1) :
            BlockEnd(Blocks[i]) <= BlockStart(Blocks[i + 1])

(* A long event with a zero-duration event nested in it, followed by an    *)
(* event that starts at the instant the long one ends: two blocks that     *)
(* touch.                                                                  *)
C1_Witness ==
    /\ HasResult
    /\ Len(Blocks) = 2
    /\ Len(Blocks[1].subEvents) = 2
    /\ LET a == Blocks[1].subEvents[1]
           b == Blocks[1].subEvents[2]
           c == Blocks[2].subEvents[1]
       IN /\ parseISO(a.startTime) < parseISO(b.startTime)
          /\ b.startTime = b.endTime
          /\ parseISO(b.endTime) < parseISO(a.endTime)
          /\ parseISO(c.startTime) = parseISO(a.endTime)
          /\ parseISO(c.startTime) < parseISO(c.endTime)

(* C2: coverage: the blocks cover exactly what the events cover: every     *)
(* member lies within its block, every complete event is a member of some  *)
(* block, and every instant or gap inside a block lies inside one of the   *)
(* events.                                                                 *)
C2_Coverage ==
    HasResult =>
        /\ \A k \in 1..Len(Blocks) : \A i \in 1..Len(Blocks[k].subEvents) :
             /\ BlockStart(Blocks[k]) <= parseISO(Blocks[k].subEvents[i].startTime)
             /\ parseISO(Blocks[k].subEvents[i].endTime) <= BlockEnd(Blocks[k])
        /\ \A i \in CompleteIndices : InputEvents[i] \in AllMembers
        /\ \A k \in 1..Len(Blocks) :
             /\ \A p \in Instants :
                  PointIn(p, BlockStart(Blocks[k]), BlockEnd(Blocks[k])) =>
                      \E i \in CompleteIndices :
                          PointIn(p, parseISO(InputEvents[i].startTime),
                                     parseISO(InputEvents[i].endTime))
             /\ \A g \in Gaps :
                  GapIn(g, BlockStart(Blocks[k]), BlockEnd(Blocks[k])) =>
                      \E i \in CompleteIndices :
                          GapIn(g, parseISO(InputEvents[i].startTime),
                                   parseISO(InputEvents[i].endTime))

(* Two overlapping events of different length in one block, a gap that    *)
(* no event covers, and a second block after the gap.                      *)
C2_Witness ==
    /\ HasResult
    /\ Len(Blocks) = 2
    /\ Len(Blocks[1].subEvents) = 2
    /\ BlockEnd(Blocks[1]) < BlockStart(Blocks[2])
    /\ BlockStart(Blocks[2]) <= BlockEnd(Blocks[2])
    /\ \A i \in 1..2 :
         parseISO(Blocks[1].subEvents[i].startTime)
             < parseISO(Blocks[1].subEvents[i].endTime)
    /\ Blocks[1].subEvents[1].endTime /= Blocks[1].subEvents[2].endTime

(***************************************************************************)
(* Vocabulary of the laytime properties.                                   *)
(***************************************************************************)
LaytimeEvents == Laytime.laytimeEvents

(* The k-th complete event of the batch, in input order. *)
KthComplete(k) ==
    CHOOSE i \in CompleteIndices :
        Cardinality({ j \in CompleteIndices : j <= i }) = k

Minutes(e) == parseISO(e.endTime) - parseISO(e.startTime)

CountedIndices ==
    { i \in CompleteIndices : InputEvents[i].category = "Cargo Operations" }

RECURSIVE SumOver(_, _)
SumOver(f(_), S) ==
    IF S = {} THEN 0
    ELSE LET i == CHOOSE x \in S : TRUE
         IN f(i) + SumOver(f, S \ {i})

MinutesAt(i) == Minutes(InputEvents[i])

ClampedMinutesAt(i) == IF MinutesAt(i) < 0 THEN 0 ELSE MinutesAt(i)

CountedTotal == SumOver(MinutesAt, CountedIndices)

Max0(n) == IF n < 0 THEN 0 ELSE n

DefaultAllowedMinutes == 4320

DefaultDailyRate == 20000

(* C3 as stated: an event with a start and no end is kept, with the start  *)
(* of the next event in ascending-start order (its own start when it is    *)
(* last) as its end, in the laytime events and in the blocks.              *)
InferredEnd(i) ==
    LET later == { j \in 1..Len(InputEvents) :
                     /\ j /= i
                     /\ InputEvents[j].startTime /= NoTime
                     /\ \/ parseISO(InputEvents[j].startTime)
                             > parseISO(InputEvents[i].startTime)
                        \/ /\ InputEvents[j].startTime = InputEvents[i].startTime
                           /\ j > i }
    IN IF later = {} THEN parseISO(InputEvents[i].startTime)
       ELSE SetMin({ parseISO(InputEvents[j].startTime) : j \in later })

C4_InvertedClamped ==
    HasResult =>
        /\ \A k \in 1..Len(LaytimeEvents) :
             Minutes(InputEvents[KthComplete(k)]) < 0 =>
                 LaytimeEvents[k].duration = "0m"
        /\ Laytime.totalLaytime
             = formatMinutesToDuration(SumOver(ClampedMinutesAt, CountedIndices))

(* C5: totalLaytime is the plain sum of end - start over the complete      *)
(* events of category Cargo Operations, overlap counted once per event;    *)
(* the other events add nothing.                                           *)
C5_TotalIsPlainSum ==
    HasResult =>
        Laytime.totalLaytime = formatMinutesToDuration(CountedTotal)

(* Cargo Operations 10:00-14:00 and 12:00-16:00: 8h. *)
C5_Witness ==
    /\ HasResult
    /\ Len(InputEvents) = 2
    /\ \A i \in 1..2 : InputEvents[i].category = "Cargo Operations"
    /\ InputEvents[1].startTime = <<0, 10, 0>>
    /\ InputEvents[1].endTime = <<0, 14, 0>>
    /\ InputEvents[2].startTime = <<0, 12, 0>>
    /\ InputEvents[2].endTime = <<0, 16, 0>>
    /\ Laytime.totalLaytime = "8h"

(* C6: against 4320 allowed minutes, timeSaved is max(0, allowed -         *)
(* counted) and demurrage is max(0, counted - allowed), each formatted.    *)
C6_SavedAndOverrun ==
    HasResult =>
        /\ Laytime.timeSaved
             = formatMinutesToDuration(Max0(DefaultAllowedMinutes - CountedTotal))
        /\ Laytime.demurrage
             = formatMinutesToDuration(Max0(CountedTotal - DefaultAllowedMinutes))

(* 5760 + 120 counted minutes: an overrun of 1560 minutes. *)
C6_Witness ==
    /\ HasResult
    /\ CountedTotal = 5880
    /\ Laytime.demurrage = "1d 2h"
    /\ Laytime.timeSaved = "0m"

(* C7: timeSaved and demurrage are never both positive. *)
C7_Exclusive ==
    HasResult => (Laytime.timeSaved = "0m" \/ Laytime.demurrage = "0m")

(* One counted event of four days: demurrage positive, no time saved. *)
C7_Witness ==
    /\ HasResult
    /\ Len(LaytimeEvents) = 1
    /\ CountedTotal > DefaultAllowedMinutes
    /\ Laytime.demurrage /= "0m"
    /\ Laytime.timeSaved = "0m"

(* C8 as stated: demurrageCost is present exactly when the overrun is      *)
(* positive, and is the overrun in days times the daily rate, rounded to   *)
(* cents and formatted as US currency.                                     *)
Pad(n, width) ==
    IF width = 3 /\ n < 10 THEN "00" \o ToString(n)
    ELSE IF (width = 3 /\ n < 100) \/ (width = 2 /\ n < 10) THEN "0" \o ToString(n)
    ELSE ToString(n)

RECURSIVE Grouped(_)
Grouped(n) ==
    IF n < 1000 THEN ToString(n)
    ELSE Grouped(n \div 1000) \o "," \o Pad(n % 1000, 3)

Currency(cents) ==
    "$" \o Grouped(cents \div 100) \o "." \o Pad(cents % 100, 2)

(* Whole days at the daily rate, the remaining minutes prorated (a minute   *)
(* costs rate * 100 / 1440 = rate * 5 / 72 cents), rounded half up.        *)
OverrunCostCents(overrun) ==
    (overrun \div 1440) * DefaultDailyRate * 100
    + ((overrun % 1440) * DefaultDailyRate * 10 + 72) \div 144

C8_OverrunCost ==
    HasResult =>
        LET overrun == Max0(CountedTotal - DefaultAllowedMinutes)
        IN IF overrun > 0
           THEN /\ "demurrageCost" \in DOMAIN Laytime
                /\ Laytime.demurrageCost = Currency(OverrunCostCents(overrun))
           ELSE "demurrageCost" \notin DOMAIN Laytime

(* C9: a laytime event is counted exactly when the category of its event   *)
(* is Cargo Operations.                                                    *)
C9_CountedIffCargo ==
    HasResult =>
        /\ Len(LaytimeEvents) = Cardinality(CompleteIndices)
        /\ \A k \in 1..Len(LaytimeEvents) :
             LaytimeEvents[k].isCounted
                 <=> InputEvents[KthComplete(k)].category = "Cargo Operations"

(* Two events with the same times, the first of a category outside the     *)
(* enumeration and the second Cargo Operations.                            *)
C9_Witness ==
    /\ HasResult
    /\ Len(InputEvents) = 2
    /\ Len(LaytimeEvents) = 2
    /\ InputEvents[1].category \notin KnownCategories
    /\ InputEvents[2].category = "Cargo Operations"
    /\ InputEvents[1].startTime = InputEvents[2].startTime
    /\ InputEvents[1].endTime = InputEvents[2].endTime
    /\ ~LaytimeEvents[1].isCounted
    /\ LaytimeEvents[2].isCounted

(* C10 as stated: the reason of delays and stoppages reads "Delays and     *)
(* stoppages do not count towards laytime."                                *)
ReasonWith(category, delayReason) ==
    IF category = "Cargo Operations" THEN "Cargo operations count towards laytime."
    ELSE IF category \in {"Delays", "Stoppages"} THEN delayReason
    ELSE "Not counted towards laytime."

C10_ReasonAsStated ==
    HasResult =>
        \A k \in 1..Len(LaytimeEvents) :
            LaytimeEvents[k].reason
                = ReasonWith(InputEvents[KthComplete(k)].category,
                             "Delays and stoppages do not count towards laytime.")

(* C10 as amended: the reason is a function of the category, and the       *)
(* reason of delays and stoppages reads "Delays and stoppages generally    *)
(* do not count."                                                          *)
C10_ReasonByCategory ==
    HasResult =>
        \A k \in 1..Len(LaytimeEvents) :
            LaytimeEvents[k].reason
                = ReasonWith(InputEvents[KthComplete(k)].category,
                             "Delays and stoppages generally do not count.")

(* A Delays event and a Stoppages event with the same reason. *)
C10_Witness ==
    /\ HasResult
    /\ Len(LaytimeEvents) = 2
    /\ Len(InputEvents) = 2
    /\ InputEvents[1].category = "Delays"
    /\ InputEvents[2].category = "Stoppages"
    /\ LaytimeEvents[1].reason = LaytimeEvents[2].reason
    /\ LaytimeEvents[1].reason = "Delays and stoppages generally do not count."

(***************************************************************************)
(* Vocabulary of the formatter properties: the call being made, and the    *)
(* day, hour and minute parts of a number of minutes.                      *)
(***************************************************************************)
Returned == formatCall /= Null /\ formatCall[1].result /= Null

Argument == formatCall[1].totalMinutes

Result == formatCall[1].result[1]

DayPart(n) == n \div 1440

HourPart(n) == (n % 1440) \div 60

MinutePart(n) == n % 60

Shown(n, unit) == <<ToString(n) \o unit>>

ShownIfPositive(n, unit) == IF n > 0 THEN Shown(n, unit) ELSE <<>>

(* C11 as stated: only the leading zero units are omitted: once a unit is  *)
(* shown every smaller unit is shown too, so 1440 minutes render as        *)
(* "1d 0h 0m".                                                             *)
C11_LeadingUnitsOnly ==
    (Returned /\ Argument > 0) =>
        Result =
            Join(IF DayPart(Argument) > 0
                 THEN Shown(DayPart(Argument), "d") \o Shown(HourPart(Argument), "h")
                          \o Shown(MinutePart(Argument), "m")
                 ELSE IF HourPart(Argument) > 0
                 THEN Shown(HourPart(Argument), "h") \o Shown(MinutePart(Argument), "m")
                 ELSE Shown(MinutePart(Argument), "m"))

(* C11 as amended: every zero unit is omitted, leading or not: a positive  *)
(* number of minutes renders as its non-zero units among days, hours and   *)
(* minutes, in this order; 1440 minutes render as "1d".                    *)
C11_ZeroUnitsOmitted ==
    (Returned /\ Argument > 0) =>
        Result =
            Join(ShownIfPositive(DayPart(Argument), "d")
                     \o ShownIfPositive(HourPart(Argument), "h")
                     \o ShownIfPositive(MinutePart(Argument), "m"))

(* The overrun of 5760 counted minutes against 4320 allowed: 1440 minutes, *)
(* rendered as "1d".                                                       *)
C11_Witness ==
    /\ Returned
    /\ Argument = 5760 - DefaultAllowedMinutes
    /\ Result = "1d"

(* C12: the formatter always shows a unit: its result is never the empty   *)
(* string, and 0 minutes render as exactly "0m".                           *)
C12_AtLeastOneUnit ==
    Returned =>
        /\ Result /= ""
        /\ Argument = 0 => Result = "0m"

(* The call with 0 minutes has returned "0m". *)
C12_Witness ==
    /\ Returned
    /\ Argument = 0
    /\ Result = "0m"

(***************************************************************************)
(* Vocabulary of the block properties: the members of a block by index.    *)
(***************************************************************************)
BlockIndices == 1..Len(Blocks)

MemberIndices(b) == 1..Len(b.subEvents)

MemberMinutes(b, i) == Minutes(b.subEvents[i])

(* The first member of b that no member of b outlasts. *)
FirstLongest(b) ==
    CHOOSE i \in MemberIndices(b) :
        /\ \A j \in MemberIndices(b) : MemberMinutes(b, j) <= MemberMinutes(b, i)
        /\ \A j \in 1..(i - 1) : MemberMinutes(b, j) < MemberMinutes(b, i)

(* C13: the category of a block is the category of its longest member,    *)
(* and of the first of them in member order when several are the longest. *)
C13_RepresentativeCategory ==
    HasResult =>
        \A k \in BlockIndices :
            Blocks[k].category = Blocks[k].subEvents[FirstLongest(Blocks[k])].category

(* Two equally long members of different categories: the block has the    *)
(* category of the first.                                                  *)
C13_Witness ==
    /\ HasResult
    /\ Len(Blocks) = 1
    /\ Len(Blocks[1].subEvents) = 2
    /\ MemberMinutes(Blocks[1], 1) = MemberMinutes(Blocks[1], 2)
    /\ MemberMinutes(Blocks[1], 1) > 0
    /\ Blocks[1].subEvents[1].category /= Blocks[1].subEvents[2].category
    /\ Blocks[1].category = Blocks[1].subEvents[1].category

BlockSpan(b) == BlockEnd(b) - BlockStart(b)

MemberSum(b) == SumOver(LAMBDA i : MemberMinutes(b, i), MemberIndices(b))

(* C14: the duration of a block is its end minus its start, and it never   *)
(* exceeds the sum of the durations of its members.                        *)
C14_SpanWithinSum ==
    HasResult =>
        \A k \in BlockIndices :
            /\ Blocks[k].duration = formatMinutesToDuration(BlockSpan(Blocks[k]))
            /\ BlockSpan(Blocks[k]) <= MemberSum(Blocks[k])

(***************************************************************************)
(* Vocabulary of the order properties: the members of the blocks 1..k one  *)
(* after the other, and the place of a complete event among the complete   *)
(* events ordered by start and, for equal starts, by input position.       *)
(***************************************************************************)
RECURSIVE MembersUpTo(_)
MembersUpTo(k) ==
    IF k = 0 THEN <<>> ELSE MembersUpTo(k - 1) \o Blocks[k].subEvents

MembersInOrder == MembersUpTo(Len(Blocks))

StartAt(i) == parseISO(InputEvents[i].startTime)

Rank(i) ==
    Cardinality({ j \in CompleteIndices :
                    \/ StartAt(j) < StartAt(i)
                    \/ StartAt(j) = StartAt(i) /\ j <= i })

(* C15: the blocks are in ascending order of their starts, the members of  *)
(* a block in non-decreasing order of their starts, events of equal start  *)
(* in input order, and every complete event is a member exactly once: the  *)
(* members of the blocks, read block after block, are the complete events  *)
(* in the order of a stable sort by start.                                 *)
C15_OrderPreserved ==
    HasResult =>
        /\ \A k \in 1..(Len(Blocks) - 1) :
             BlockStart(Blocks[k]) <= BlockStart(Blocks[k + 1])
        /\ \A k \in BlockIndices : \A i, j \in MemberIndices(Blocks[k]) :
             i < j => parseISO(Blocks[k].subEvents[i].startTime)
                          <= parseISO(Blocks[k].subEvents[j].startTime)
        /\ Len(MembersInOrder) = Cardinality(CompleteIndices)
        /\ \A i \in CompleteIndices : MembersInOrder[Rank(i)] = InputEvents[i]

(* The latest event comes first in the input, followed by two events of    *)
(* one start and different ends: these two form the first block, in input  *)
(* order, and the latest event the second block.                           *)
C15_Witness ==
    /\ HasResult
    /\ Len(InputEvents) = 3
    /\ Len(Blocks) = 2
    /\ Blocks[1].subEvents = <<InputEvents[2], InputEvents[3]>>
    /\ Blocks[2].subEvents = <<InputEvents[1]>>
    /\ InputEvents[2].startTime = InputEvents[3].startTime
    /\ InputEvents[2].endTime /= InputEvents[3].endTime
    /\ BlockStart(Blocks[1]) < BlockStart(Blocks[2])

(* The latest end of the members of b before its i-th member. *)
LatestEndBefore(b, i) ==
    SetMax({ parseISO(b.subEvents[j].endTime) : j \in 1..(i - 1) })

FirstStart(b) == parseISO(b.subEvents[1].startTime)

Extracted == extractedData /= Null

EmptyBatch == Extracted /\ Len(InputEvents) = 0

C19_NoException == Extracted => ~renderError

IsUnknown(category) == category \notin KnownCategories

LongestCategory(b) == b.subEvents[FirstLongest(b)].category

DefaultBranch(k) ==
    /\ LaytimeEvents[k].isCounted = FALSE
    /\ LaytimeEvents[k].reason = "Not counted towards laytime."

(* C20 as stated: an event of a category outside the enumeration is        *)
(* treated as Other: it is not counted, with the default reason, and a     *)
(* block whose longest member it is has the category Other.                *)
C20_TreatedAsOther ==
    HasResult =>
        /\ \A k \in 1..Len(LaytimeEvents) :
             IsUnknown(InputEvents[KthComplete(k)].category) => DefaultBranch(k)
        /\ \A k \in BlockIndices :
             IsUnknown(LongestCategory(Blocks[k])) => Blocks[k].category = "Other"

(* C20 as amended: such an event is not counted, with the default reason,  *)
(* and a block whose longest member it is carries the event's own category *)
(* string, unchanged.                                                      *)
C20_CategoryKept ==
    HasResult =>
        /\ \A k \in 1..Len(LaytimeEvents) :
             IsUnknown(InputEvents[KthComplete(k)].category) => DefaultBranch(k)
        /\ \A k \in BlockIndices :
             IsUnknown(LongestCategory(Blocks[k])) =>
                 /\ Blocks[k].category = LongestCategory(Blocks[k])
                 /\ Blocks[k].category /= "Other"

(* A two-hour event of the category "Pilotage" and a shorter event of a    *)
(* known category in one block: the block is a "Pilotage" block and the    *)
(* laytime event of the "Pilotage" event is not counted.                   *)
C20_Witness ==
    /\ HasResult
    /\ Len(Blocks) = 1
    /\ Len(Blocks[1].subEvents) = 2
    /\ Blocks[1].subEvents[1].category = "Pilotage"
    /\ Blocks[1].subEvents[2].category = "Cargo Operations"
    /\ MemberMinutes(Blocks[1], 1) = 120
    /\ MemberMinutes(Blocks[1], 2) = 0
    /\ Blocks[1].category = "Pilotage"
    /\ InputEvents[1].category = "Pilotage"
    /\ DefaultBranch(1)

(***************************************************************************)
(* Vocabulary of the lifecycle property.                                   *)
(***************************************************************************)
LaytimeEventsAsGiven ==
    { [ startTime |-> LaytimeEvents[k].startTime, endTime |-> LaytimeEvents[k].endTime ] :
        k \in 1..Len(LaytimeEvents) }

CompleteEventsAsGiven ==
    { [ startTime |-> InputEvents[i].startTime, endTime |-> InputEvents[i].endTime ] :
        i \in CompleteIndices }

GoneEvents == earlierEvents \ currentEvents

(* C21: nothing persists across batches: without extracted data there is   *)
(* no result; a result is derived from the current batch alone: its        *)
(* blocks hold exactly the complete events of the current batch, its       *)
(* laytime events are those events, its totals are their totals, and no    *)
(* event that only an earlier batch had is in a block or a laytime event.  *)
C21_NothingPersists ==
    /\ ~Extracted => ~HasResult
    /\ HasResult =>
         /\ enrichedData[1].events = InputEvents
         /\ AllMembers = { InputEvents[i] : i \in CompleteIndices }
         /\ Len(MembersInOrder) = Cardinality(CompleteIndices)
         /\ Len(LaytimeEvents) = Cardinality(CompleteIndices)
         /\ LaytimeEventsAsGiven = CompleteEventsAsGiven
         /\ Laytime.totalLaytime = formatMinutesToDuration(CountedTotal)
         /\ enrichedData[1].eventsSummary.cargoOperations
                = formatMinutesToDuration(CountedTotal)
         /\ \A e \in GoneEvents :
              /\ e \notin AllMembers
              /\ [ startTime |-> e.startTime, endTime |-> e.endTime ]
                     \notin LaytimeEventsAsGiven

(* A second batch after a first one that had a result and was reset: the   *)
(* result has one block with the one event of the second batch, and the    *)
(* first batch had a different event.                                      *)
C21_Witness ==
    /\ HasResult
    /\ Len(InputEvents) = 1
    /\ Len(Blocks) = 1
    /\ Blocks[1].subEvents = InputEvents
    /\ Laytime.totalLaytime = "2h"
    /\ \E e \in GoneEvents : e.startTime = e.endTime

(***************************************************************************)
(* Vocabulary of the dashboard property.                                   *)
(***************************************************************************)
Rendered == chartData /= Null

ChartBlocks == chartData[1]

(* C22: the dashboard's merger keeps its blocks disjoint: the span of a    *)
(* block, from the start of its first member to the latest end of its      *)
(* members, ends at or before the start of the next block.                 *)
C22_DashboardDisjoint ==
    Rendered =>
        \A k \in 1..(Len(ChartBlocks) - 1) :
            BlockEnd(ChartBlocks[k]) <= FirstStart(ChartBlocks[k + 1])

(***************************************************************************)
(* Vocabulary of the property of the durations in hours.                   *)
(***************************************************************************)
InDaysHoursMinutes(n) ==
    (IF DayPart(n) > 0 THEN ToString(DayPart(n)) \o "d " ELSE "")
        \o ToString(HourPart(n)) \o "h " \o ToString(MinutePart(n)) \o "m"

(* C23: in the revisions that take durations with differenceInHours, the   *)
(* duration of a block is its end minus its start in days, hours and       *)
(* minutes, the minutes being those beyond the whole hours: 90 minutes     *)
(* read "1h 30m".                                                          *)
C23_MinutesBeyondHours ==
    HasResult =>
        \A k \in BlockIndices :
            BlockSpan(Blocks[k]) >= 0 =>
                Blocks[k].duration = InDaysHoursMinutes(BlockSpan(Blocks[k]))

(***************************************************************************)
(* Vocabulary of the permutation property: the batch in another order, and *)
(* a sequence of blocks as the sequence of their spans and member sets.    *)
(***************************************************************************)
Orders(n) ==
    { p \in [1..n -> 1..n] : \A i, j \in 1..n : i /= j => p[i] /= p[j] }

Permuted(p) == [ i \in 1..Len(InputEvents) |-> InputEvents[p[i]] ]

PartitionOf(blocks) ==
    [ k \in 1..Len(blocks) |->
        [ start |-> BlockStart(blocks[k]),
          end |-> BlockEnd(blocks[k]),
          members |-> { blocks[k].subEvents[i] : i \in 1..Len(blocks[k].subEvents) } ] ]

BlocksOfPermuted(p) ==
    timelineBlocksOf(sortByStart(validEventsOf(Permuted(p))))

(* C24: the blocks depend on the events only, not on their order in the    *)
(* batch: every permutation of the batch gives the same sequence of block  *)
(* spans with the same member sets.                                        *)
C24_OrderIndependent ==
    HasResult =>
        \A p \in Orders(Len(InputEvents)) :
            PartitionOf(BlocksOfPermuted(p)) = PartitionOf(Blocks)

(***************************************************************************)
(* Vocabulary of the summary property.                                     *)
(***************************************************************************)
EarliestStart == SetMin({ parseISO(InputEvents[i].startTime) : i \in CompleteIndices })

LatestEnd == SetMax({ parseISO(InputEvents[i].endTime) : i \in CompleteIndices })

(* C25: the summary's total time in port is the latest end among the       *)
(* complete events minus the earliest start among them.                    *)
C25_FullExtent ==
    HasResult =>
        enrichedData[1].eventsSummary.totalTimeInPort
            = formatMinutesToDuration(LatestEnd - EarliestStart)

(* The rendering of every number of minutes from 0 on. *)
Renderings == [ n \in 0..MaxFormatMinutes |-> formatMinutesToDuration(n) ]

(* C26: the formatter is lossless from 0 minutes on: the units it renders  *)
(* are the day part, the hour part (0..23) and the minute part (0..59) of  *)
(* its argument, an omitted unit being 0, they add up to the argument, and *)
(* no other number of minutes renders as the same string.                  *)
C26_Lossless ==
    (Returned /\ Argument >= 0) =>
        /\ HourPart(Argument) \in 0..23
        /\ MinutePart(Argument) \in 0..59
        /\ DayPart(Argument) * 1440 + HourPart(Argument) * 60 + MinutePart(Argument)
               = Argument
        /\ Result =
               IF Argument = 0 THEN "0m"
               ELSE Join(ShownIfPositive(DayPart(Argument), "d")
                             \o ShownIfPositive(HourPart(Argument), "h")
                             \o ShownIfPositive(MinutePart(Argument), "m"))
        /\ \A n \in 0..MaxFormatMinutes : n /= Argument => Renderings[n] /= Result

(* 1501 minutes have returned "1d 1h 1m". *)
C26_Witness ==
    /\ Returned
    /\ Argument = 1501
    /\ Result = "1d 1h 1m"

(***************************************************************************)
(* Vocabulary of the calculator property.                                  *)
(***************************************************************************)
Viewed == calculatorView /= Null

ZeroMinutes == <<"0", "m">>

(* C27: for a laytime result whose demurrage is the allocator's zero       *)
(* duration "0m", the "Estimated Demurrage Cost" card is not shown,        *)
(* whatever demurrageCost contains.                                        *)
C27_NoCardForZeroDemurrage ==
    (Viewed /\ laytimeResult /= Null /\ laytimeResult[1].demurrage = ZeroMinutes) =>
        ~calculatorView[1].costCard

(***************************************************************************)
(* C28.  Sending in the assistant.  A send with non-blank input while no   *)
(* call is loading appends the user's message and sets isLoading; any      *)
(* other send changes nothing.  A call that settles (with a response,      *)
(* without one, or by throwing) appends one assistant message and clears   *)
(* isLoading, there is one call in flight exactly while isLoading, and     *)
(* every accepted send is eventually answered that way.  No step removes   *)
(* or reorders a message.                                                  *)
(***************************************************************************)
Blank == trim(input) = <<>>

LastUser(n) ==
    /\ n \in 1..Len(messages)
    /\ messages[n].role = "user"
    /\ \A k \in (n + 1)..Len(messages) : messages[k].role /= "user"

IsAnswer(message) ==
    message.role = "assistant" /\ Len(message.content) = 1 /\ message /= welcomeMessage

Answered(n) ==
    /\ ~isLoading
    /\ LastUser(n)
    /\ Cardinality({ k \in (n + 1)..Len(messages) : IsAnswer(messages[k]) }) = 1

C28_SendSteps ==
    [][handleSendMessage =>
         IF Blank \/ isLoading
         THEN UNCHANGED assistantVars
         ELSE /\ messages' = Append(messages, userMessageOf(input))
              /\ isLoading']_vars

C28_SettleSteps ==
    [][Len(pendingCalls') < Len(pendingCalls) =>
         /\ Len(messages') = Len(messages) + 1
         /\ IsAnswer(messages'[Len(messages')])
         /\ ~isLoading']_vars

C28_OneCall == [](Len(pendingCalls) = IF isLoading THEN 1 ELSE 0)

C28_Kept ==
    [][/\ Len(messages') >= Len(messages)
       /\ SubSeq(messages', 1, Len(messages)) = messages]_vars

C28_Answered ==
    \A n \in 1..MaxMessages : (isLoading /\ LastUser(n)) ~> Answered(n)

C28_SendLifecycle ==
    /\ C28_SendSteps
    /\ C28_SettleSteps
    /\ C28_OneCall
    /\ C28_Kept
    /\ C28_Answered

(* A send answered by the error message after an insight arrived while     *)
(* the call was loading.                                                   *)
C28_Witness ==
    /\ ~isLoading
    /\ \E n \in 1..(Len(messages) - 2) :
          /\ messages[n].role = "user"
          /\ messages[n + 1] \in { insightMessageOf(d[1]) : d \in AssistantData \ { Null } }
          /\ messages[n + 2] = errorMessage

(***************************************************************************)
(* C29.  While the panel is open the badge is not pending: isOpen implies  *)
(* that hasNewInsight is false, in every state (every state is one in      *)
(* which the effects of the last render have run).                         *)
(***************************************************************************)
C29_NoBadgeWhileOpen == isOpen => ~hasNewInsight

(***************************************************************************)
(* C30.  The upload route.  Neither function is called unless the entry    *)
(* is a file of at most 10 MB whose name ends in .docx or .pdf, and the    *)
(* model is called only for a text of at least 50 characters after         *)
(* trimming.  Of a request that was read: no file answers 400, a file      *)
(* over 10 MB 413, otherwise a name without the two endings 415,           *)
(* otherwise a text under 50 characters after trimming 400; a model        *)
(* result without vesselName answers 500; a thrown Error answers 500 with  *)
(* a JSON body; the answer is a success exactly when the model returned a  *)
(* result with a vesselName, and then it is that result.                   *)
(***************************************************************************)
Called(name) == \E i \in 1..Len(calls) : calls[i] = name

Answered30 == httpResponse /= Null

Status == httpResponse[1].status

IsFile == file /= Null /\ file[1].isFile

NonBlank(text) == { i \in 1..Len(text) : text[i] /= " " }

TrimmedLength(text) ==
    IF NonBlank(text) = {} THEN 0 ELSE SetMax(NonBlank(text)) - SetMin(NonBlank(text)) + 1

NameAccepted ==
    \E n \in 1..Len(file[1].name) :
        LET ending == SubSeq(file[1].name, n, Len(file[1].name))
        IN  ending = <<".", "d", "o", "c", "x">> \/ ending = <<".", "p", "d", "f">>

ChecksPassed == IsFile /\ file[1].size <= 10485760 /\ NameAccepted

HasVesselName == modelResult /= Null /\ modelResult[1].vesselName /= ""

C30_RoutePrecedence ==
    /\ Called("extractText") => ChecksPassed
    /\ Called("extractPortOperationEvents") =>
          /\ calls = <<"extractText", "extractPortOperationEvents">>
          /\ sofContent /= Null
          /\ TrimmedLength(sofContent[1]) >= 50
    /\ Answered30 =>
          /\ (thrown = Null /\ file = Null) => (Status = 400 /\ calls = <<>>)
          /\ (IsFile /\ file[1].size > 10485760) => (Status = 413 /\ calls = <<>>)
          /\ (IsFile /\ file[1].size <= 10485760 /\ ~NameAccepted) =>
                (Status = 415 /\ calls = <<>>)
          /\ (sofContent /= Null /\ TrimmedLength(sofContent[1]) < 50) =>
                (Status = 400 /\ ~Called("extractPortOperationEvents"))
          /\ (modelResult /= Null /\ ~HasVesselName) => Status = 500
          /\ (thrown /= Null /\ thrown[1].isError) =>
                (Status = 500 /\ httpResponse[1].json /= Null)
          /\ Status = 200 <=> (Called("extractPortOperationEvents") /\ HasVesselName)
          /\ Status = 200 => httpResponse[1].json = modelResult

(* A text of 50 characters between blanks went to the model, which         *)
(* returned a vessel name.                                                 *)
C30_Witness ==
    /\ Answered30
    /\ Status = 200
    /\ sofContent /= Null
    /\ Len(sofContent[1]) > TrimmedLength(sofContent[1])

====
